---- MODULE Spec2Model ----
(***************************************************************************)
(* A model of devjunk: the pattern catalog (types.rs), the directory       *)
(* scanner (scanner.rs) and the clean planner/executor (cleaner.rs) of     *)
(* devjunk-core, the clean command of the CLI (main.rs) and the progress   *)
(* throttle of the GUI's scan command (commands.rs).                       *)
(*                                                                         *)
(* A path is a sequence of components (Path::starts_with is the            *)
(* component-wise prefix test).  The filesystem is a function from the     *)
(* paths that exist to their entries; <<>> is the filesystem root.  The    *)
(* tree a walk sees is the tree of entries WalkDir yields as Ok: the       *)
(* scanner's loop `continue`s on an Err item, which carries no entry.      *)
(***************************************************************************)
EXTENDS Integers, Sequences, FiniteSets, TLC

VARIABLES
    fs,        \* the filesystem: path -> [kind, len]
    pc,        \* the phase of the program
    config,    \* the ScanConfig of the scan call
    finished,  \* indices of the roots whose worker has returned
    partial,   \* per root index: the Vec<ScanItem> its scan_root returned
    result,    \* the Result<ScanResult> of scan
    prev,      \* the result of the previous completed scan call (history)
    planArgs,  \* the selection and dry_run arguments of build_clean_plan
    plan,      \* the CleanPlan
    locked,    \* the entries whose removal fails
    vanished,  \* the plan paths removed out-of-band since the scan (history)
    fs0,       \* the filesystem when execute_clean was called (history)
    cres,      \* the Result<CleanResult> of execute_clean
    dirStats,  \* a call of calculate_dir_stats: its path and what it returned
    catalog,   \* a lookup in the pattern catalog: its arguments and results
    clock,     \* GUI: the system time in milliseconds
    last_emit, \* GUI: the AtomicU64 shared by the progress callbacks
    cb,        \* GUI: per scan worker, where its progress callback stands
    emitted,   \* GUI: the clock readings of the scan-progress events emitted
    args,      \* CLI: the arguments of the clean command
    stdin,     \* CLI: what read_line gave at the confirmation prompt
    out        \* CLI: the lines printed that report how the command ended

scanVars == <<config, finished, partial, result, prev>>
cleanVars == <<planArgs, plan, locked, vanished, fs0, cres>>
guiVars == <<clock, last_emit, cb, emitted>>
cliVars == <<args, stdin, out>>
extVars == <<dirStats, catalog, guiVars, cliVars>>
vars == <<fs, pc, scanVars, cleanVars, extVars>>

----------------------------------------------------------------------------
(* Bounds of the model *)

\* entries the environment creates below the filesystem root
MaxEntries == 3
\* byte lengths of the regular files the environment creates
FileLens == {1, 2}

\* directory names the environment uses: a plain name, a hidden name that is
\* no pattern, a pattern, a hidden pattern
Names == {"proj", ".git", "node_modules", ".venv"}

\* orders in which read_dir may list a directory's children
NameOrders == { <<"proj", ".git", "node_modules", ".venv">>,
                <<".venv", "node_modules", ".git", "proj">> }

\* longest path (in components) the environment creates
MaxPathLen == MaxEntries

----------------------------------------------------------------------------
(* Paths *)

\* Path::starts_with: base is a component-wise prefix of p
starts_with(p, base) ==
    /\ Len(base) <= Len(p)
    /\ SubSeq(p, 1, Len(base)) = base

\* DirEntry::file_name of an entry at path p (p has at least one component)
file_name(p) == p[Len(p)]


----------------------------------------------------------------------------
(* The filesystem *)

\* kind is the file type read_dir reports (symlinks are not followed), len
\* the byte length fs::metadata reports, meta whether fs::metadata succeeds
DirEnt == [kind |-> "dir", len |-> 0, meta |-> TRUE]
FileEnt(n) == [kind |-> "file", len |-> n, meta |-> TRUE]
\* a regular file whose metadata cannot be read
UnreadableFileEnt(n) == [kind |-> "file", len |-> n, meta |-> FALSE]
\* a symbolic link to a regular file of n bytes
SymlinkEnt(n) == [kind |-> "symlink", len |-> n, meta |-> TRUE]

\* Path::exists
exists(f, p) == p \in DOMAIN f

\* Path::is_dir
is_dir(f, p) == p \in DOMAIN f /\ f[p].kind = "dir"

\* the regular-file test of DirEntry::file_type
is_file(f, p) == p \in DOMAIN f /\ f[p].kind = "file"

\* the entries of the subtree at p, p included
Subtree(f, p) == { q \in DOMAIN f : starts_with(q, p) }

----------------------------------------------------------------------------
(* Pattern catalog: types.rs *)

None == "None"

\* JunkKind::all
JunkKindAll ==
    << "PythonVenv", "PythonTox", "PythonCache", "MypyCache", "PytestCache",
       "NodeModules", "RustTarget", "BuildDir", "DistDir", "OutDir",
       "GoVendor", "NextDir", "NuxtDir" >>

\* a pattern table in which "build" is listed for two kinds
patterns_shared_name(kind) ==
    CASE kind = "PythonVenv"  -> << ".venv", "venv" >>
      [] kind = "PythonTox"   -> << ".tox" >>
      [] kind = "PythonCache" -> << "__pycache__" >>
      [] kind = "MypyCache"   -> << ".mypy_cache" >>
      [] kind = "PytestCache" -> << ".pytest_cache" >>
      [] kind = "NodeModules" -> << "node_modules" >>
      [] kind = "RustTarget"  -> << "target", "build" >>
      [] kind = "BuildDir"    -> << "build" >>
      [] kind = "DistDir"     -> << "dist" >>
      [] kind = "OutDir"      -> << "out" >>
      [] kind = "GoVendor"    -> << "vendor" >>
      [] kind = "NextDir"     -> << ".next" >>
      [] kind = "NuxtDir"     -> << ".nuxt" >>

\* JunkKind::patterns
patterns(kind) ==
    CASE kind = "PythonVenv"  -> << ".venv", "venv" >>
      [] kind = "PythonTox"   -> << ".tox" >>
      [] kind = "PythonCache" -> << "__pycache__" >>
      [] kind = "MypyCache"   -> << ".mypy_cache" >>
      [] kind = "PytestCache" -> << ".pytest_cache" >>
      [] kind = "NodeModules" -> << "node_modules" >>
      [] kind = "RustTarget"  -> << "target" >>
      [] kind = "BuildDir"    -> << "build" >>
      [] kind = "DistDir"     -> << "dist" >>
      [] kind = "OutDir"      -> << "out" >>
      [] kind = "GoVendor"    -> << "vendor" >>
      [] kind = "NextDir"     -> << ".next" >>
      [] kind = "NuxtDir"     -> << ".nuxt" >>

\* JunkKind::matches_name
matches_name(kind, name) ==
    \E i \in 1..Len(patterns(kind)) : patterns(kind)[i] = name

\* JunkKind::from_name: the first kind of JunkKind::all() that matches
from_name(name) ==
    IF \E i \in 1..Len(JunkKindAll) : matches_name(JunkKindAll[i], name)
    THEN JunkKindAll[CHOOSE i \in 1..Len(JunkKindAll) :
                        /\ matches_name(JunkKindAll[i], name)
                        /\ \A j \in 1..(i-1) : ~matches_name(JunkKindAll[j], name)]
    ELSE None

\* no lookup yet
NoCatalog == [name |-> "", pats |-> << >>, matches |-> {}, from |-> None,
              found |-> None]

\* scanner.rs find_matching_kind: the first kind of the list that matches
find_matching_kind(name, pats) ==
    IF \E i \in 1..Len(pats) : matches_name(pats[i], name)
    THEN pats[CHOOSE i \in 1..Len(pats) :
                 /\ matches_name(pats[i], name)
                 /\ \A j \in 1..(i-1) : ~matches_name(pats[j], name)]
    ELSE None

----------------------------------------------------------------------------
(* Scanner: scanner.rs *)

\* ScanConfig::max_depth = None
NoLimit == -1

\* the names of the model that start with '.'
DotNames == { n \in Names : n \in {".git", ".venv"} }

\* scanner.rs is_hidden
is_hidden(p) == file_name(p) \in DotNames

\* a filter that rejects every hidden entry, junk or not
filter_entry_strict(cfg, p) == cfg.include_hidden \/ ~is_hidden(p)

\* the predicate scan_root gives to WalkDir::filter_entry
filter_entry(cfg, p) ==
    IF ~cfg.include_hidden /\ is_hidden(p)
    THEN \E i \in 1..Len(cfg.include_patterns) :
             matches_name(cfg.include_patterns[i], file_name(p))
    ELSE TRUE

\* WalkDir over the tree at p (follow_links(false), max_depth, filter_entry):
\* the entries in the order they are yielded, a directory before its children,
\* the children in read_dir order ord; an entry the predicate rejects is not
\* yielded and not descended into; a directory at max_depth is not descended
RECURSIVE Walk(_, _, _, _, _)
RECURSIVE WalkChildren(_, _, _, _, _, _)
Walk(f, cfg, ord, p, depth) ==
    IF ~filter_entry(cfg, p)
    THEN << >>
    ELSE << p >> \o
         ( IF is_dir(f, p) /\ (cfg.max_depth = NoLimit \/ depth < cfg.max_depth)
           THEN WalkChildren(f, cfg, ord, p, depth, 1)
           ELSE << >> )
WalkChildren(f, cfg, ord, p, depth, i) ==
    IF i > Len(ord)
    THEN << >>
    ELSE ( IF exists(f, Append(p, ord[i]))
           THEN Walk(f, cfg, ord, Append(p, ord[i]), depth + 1)
           ELSE << >> )
         \o WalkChildren(f, cfg, ord, p, depth, i + 1)

\* sum of the byte lengths of the entries of S
RECURSIVE SumLen(_, _)
SumLen(f, S) ==
    IF S = {} THEN 0
    ELSE LET q == CHOOSE x \in S : TRUE
         IN  f[q].len + SumLen(f, S \ {q})

\* WalkDir::new(path).follow_links(false) without filter or depth limit: the
\* entries of the subtree, a directory before its children
WalkAll(f, ord, path) ==
    Walk(f, [include_hidden |-> TRUE, include_patterns |-> << >>,
             max_depth |-> NoLimit], ord, path, 0)

\* calculate_dir_stats: the entry count from which the parallel branch is taken
ParallelThreshold == 1000

\* calculate_dir_stats, sequential branch: the for loop from entry i on
RECURSIVE stats_sequential(_, _, _, _, _)
stats_sequential(f, entries, i, total_size, file_count) ==
    IF i > Len(entries) THEN << total_size, file_count >>
    ELSE IF is_file(f, entries[i])
         THEN stats_sequential(f, entries, i + 1,
                               IF f[entries[i]].meta
                               THEN total_size + f[entries[i]].len
                               ELSE total_size,
                               file_count + 1)
         ELSE stats_sequential(f, entries, i + 1, total_size, file_count)

\* calculate_dir_stats, parallel branch: the pair the map closure gives for a
\* regular file
stats_map(f, p) == << IF f[p].meta THEN f[p].len ELSE 0, 1 >>

\* a reducer that adds the sizes and keeps the left count
stats_reduce_sizes_only(a, b) == << a[1] + b[1], a[2] >>

\* calculate_dir_stats, parallel branch: the reduce closure
stats_reduce(a, b) == << a[1] + b[1], a[2] + b[2] >>

\* rayon reduce over a sequence of pairs: the sequence is split at any places
\* into consecutive parts, down to single items, and the parts' results are
\* combined with the reducer; the set of the results of all the ways to split
RECURSIVE reduce_results(_)
reduce_results(pairs) ==
    IF pairs = << >> THEN { << 0, 0 >> }
    ELSE IF Len(pairs) = 1 THEN { stats_reduce(<< 0, 0 >>, pairs[1]) }
    ELSE UNION { { stats_reduce(a, b) :
                     a \in reduce_results(SubSeq(pairs, 1, k)),
                     b \in reduce_results(SubSeq(pairs, k + 1, Len(pairs))) } :
                 k \in 1..(Len(pairs) - 1) }

\* calculate_dir_stats, parallel branch: filter, map, reduce
stats_parallel(f, entries) ==
    LET files == SelectSeq(entries, LAMBDA p : is_file(f, p))
    IN  reduce_results([i \in 1..Len(files) |-> stats_map(f, files[i])])

\* scanner.rs calculate_dir_stats: the pairs (total_size, file_count) the call
\* may return
calculate_dir_stats_results(f, ord, path) ==
    LET entries == WalkAll(f, ord, path)
    IN  IF Len(entries) < ParallelThreshold
        THEN { stats_sequential(f, entries, 1, 0, 0) }
        ELSE stats_parallel(f, entries)

\* scanner.rs calculate_dir_stats as scan_root calls it
calculate_dir_stats(f, ord, path) ==
    CHOOSE r \in calculate_dir_stats_results(f, ord, path) : TRUE

\* ScanItem::new
ScanItem(path, kind, size_bytes, file_count) ==
    [path |-> path, kind |-> kind, size_bytes |-> size_bytes,
     file_count |-> file_count]

\* a scan_root that does not prune below a match
in_skip_dirs_noprune(p, skip_dirs) == FALSE

\* a prune test that compares for equality only
in_skip_dirs_exact(p, skip_dirs) ==
    \E s \in 1..Len(skip_dirs) : p = skip_dirs[s]

\* scan_root: the entry is inside a junk directory found earlier in the walk
in_skip_dirs(p, skip_dirs) ==
    \E s \in 1..Len(skip_dirs) : starts_with(p, skip_dirs[s])

\* an exclude test that compares for equality only
is_excluded_exact(cfg, p) ==
    \E e \in 1..Len(cfg.exclude_paths) : p = cfg.exclude_paths[e]

\* scan_root: the entry is equal to or nested under an exclude path
is_excluded(cfg, p) ==
    \E e \in 1..Len(cfg.exclude_paths) : starts_with(p, cfg.exclude_paths[e])

\* the body of scan_root's for loop, from entry i of the walk on
RECURSIVE ScanLoop(_, _, _, _, _, _, _)
ScanLoop(f, cfg, ord, entries, i, items, skip_dirs) ==
    IF i > Len(entries)
    THEN items
    ELSE
      LET p == entries[i]
          kind == find_matching_kind(file_name(p), cfg.include_patterns)
          stats == calculate_dir_stats(f, ord, p)
      IN  IF in_skip_dirs(p, skip_dirs)
          THEN ScanLoop(f, cfg, ord, entries, i + 1, items, skip_dirs)
          ELSE IF is_excluded(cfg, p)
          THEN ScanLoop(f, cfg, ord, entries, i + 1, items, skip_dirs)
          ELSE IF ~is_dir(f, p)
          THEN ScanLoop(f, cfg, ord, entries, i + 1, items, skip_dirs)
          ELSE IF kind # None
          THEN ScanLoop(f, cfg, ord, entries, i + 1,
                        Append(items, ScanItem(p, kind, stats[1], stats[2])),
                        Append(skip_dirs, p))
          ELSE ScanLoop(f, cfg, ord, entries, i + 1, items, skip_dirs)

\* scanner.rs scan_root
scan_root(f, cfg, ord, root) ==
    ScanLoop(f, cfg, ord, Walk(f, cfg, ord, root, 0), 1, << >>, << >>)

\* ScanResult::sort_by_size: a stable sort, largest first
RECURSIVE InsertBySize(_, _)
InsertBySize(sorted, x) ==
    IF sorted = << >> THEN << x >>
    ELSE IF Head(sorted).size_bytes >= x.size_bytes
         THEN << Head(sorted) >> \o InsertBySize(Tail(sorted), x)
         ELSE << x >> \o sorted
RECURSIVE SortFrom(_, _, _)
SortFrom(items, i, sorted) ==
    IF i > Len(items) THEN sorted
    ELSE SortFrom(items, i + 1, InsertBySize(sorted, items[i]))

\* a scan that returns the items in the order they were collected
sort_by_size_unsorted(items) == items

sort_by_size(items) == SortFrom(items, 1, << >>)

\* the root-validation loop of scan: the error of the first offending root,
\* or Ok
NoResult == [tag |-> "none"]
Ok(items) == [tag |-> "Ok", items |-> items]
Err(kind, path) == [tag |-> "Err", kind |-> kind, path |-> path]

\* a validation that looks at the first root only
validate_first_root(f, roots, i) ==
    IF i > Len(roots) THEN Ok(<< >>)
    ELSE IF ~exists(f, roots[i]) THEN Err("PathNotFound", roots[i])
    ELSE IF ~is_dir(f, roots[i]) THEN Err("NotADirectory", roots[i])
    ELSE Ok(<< >>)

RECURSIVE validate_roots(_, _, _)
validate_roots(f, roots, i) ==
    IF i > Len(roots) THEN Ok(<< >>)
    ELSE IF ~exists(f, roots[i]) THEN Err("PathNotFound", roots[i])
    ELSE IF ~is_dir(f, roots[i]) THEN Err("NotADirectory", roots[i])
    ELSE validate_roots(f, roots, i + 1)

\* the flat_map(...).collect() of scan: rayon keeps the order of the roots
RECURSIVE collect(_, _)
collect(parts, i) ==
    IF i > Len(parts) THEN << >>
    ELSE parts[i] \o collect(parts, i + 1)

----------------------------------------------------------------------------
(* Cleaner: cleaner.rs *)

\* CleanPlan::new
CleanPlan(paths, dry_run) == [paths |-> paths, dry_run |-> dry_run]

NoPlan == CleanPlan(<< >>, FALSE)
NoArgs == [selection |-> << >>, dry_run |-> FALSE]

\* selection.contains(path)
contains(selection, path) ==
    \E i \in 1..Len(selection) : selection[i] = path

\* a planner that walks the selection instead of the scan result
build_clean_plan_by_selection(res, selection, dry_run) ==
    CleanPlan(SelectSeq(selection,
                        LAMBDA q : \E i \in 1..Len(res.items) : res.items[i].path = q),
              dry_run)

\* cleaner.rs build_clean_plan: the paths of the items of the result that the
\* selection contains, in the order of the result
RECURSIVE SelectedPaths(_, _, _)
SelectedPaths(items, selection, i) ==
    IF i > Len(items) THEN << >>
    ELSE ( IF contains(selection, items[i].path)
           THEN << items[i].path >> ELSE << >> )
         \o SelectedPaths(items, selection, i + 1)
build_clean_plan(res, selection, dry_run) ==
    CleanPlan(SelectedPaths(res.items, selection, 1), dry_run)

\* CleanResult::new
CleanResult(dry_run) ==
    [deleted |-> << >>, failed |-> << >>, bytes_freed |-> 0,
     was_dry_run |-> dry_run]

\* CleanResult::deleted_count
deleted_count(r) == Len(r.deleted)

\* CleanResult::is_success
is_success(r) == r.failed = << >>

\* cleaner.rs calculate_dir_size: the byte lengths of the regular files of
\* the subtree whose metadata can be read, summed
calculate_dir_size(f, path) ==
    SumLen(f, { q \in Subtree(f, path) : is_file(f, q) /\ f[q].meta })

\* the io::Error text of a removal that fails
PermissionDenied == "Permission denied (os error 13)"
NotADirectory == "Not a directory (os error 20)"

\* fs::remove_dir_all below the top level: the children of a directory in
\* read_dir order, each removed recursively, then the directory itself; the
\* first removal that fails ends the call and leaves what it has not removed
RECURSIVE RemoveEntry(_, _, _, _)
RECURSIVE RemoveChildren(_, _, _, _, _)
RemoveEntry(f, lck, ord, p) ==
    LET inner == IF f[p].kind = "dir"
                 THEN RemoveChildren(f, lck, ord, p, 1)
                 ELSE [ok |-> TRUE, fs |-> f]
    IN  IF ~inner.ok THEN inner
        ELSE IF p \in lck THEN [ok |-> FALSE, fs |-> inner.fs]
        ELSE [ok |-> TRUE,
              fs |-> [q \in (DOMAIN inner.fs) \ {p} |-> inner.fs[q]]]
RemoveChildren(f, lck, ord, p, i) ==
    IF i > Len(ord) THEN [ok |-> TRUE, fs |-> f]
    ELSE IF ~exists(f, Append(p, ord[i]))
         THEN RemoveChildren(f, lck, ord, p, i + 1)
         ELSE LET r == RemoveEntry(f, lck, ord, Append(p, ord[i]))
              IN  IF ~r.ok THEN r
                  ELSE RemoveChildren(r.fs, lck, ord, p, i + 1)

\* fs::remove_dir_all(path)
remove_dir_all(f, lck, ord, path) ==
    IF ~is_dir(f, path)
    THEN [ok |-> FALSE, fs |-> f, msg |-> NotADirectory]
    ELSE LET r == RemoveEntry(f, lck, ord, path)
         IN  [ok |-> r.ok, fs |-> r.fs, msg |-> PermissionDenied]

\* a delete_directory that measures and reports success without removing
delete_directory_size_only(f, lck, ord, path) ==
    [ok |-> TRUE, size |-> calculate_dir_size(f, path), fs |-> f,
     msg |-> PermissionDenied]

\* cleaner.rs delete_directory: the size, then the removal
delete_directory(f, lck, ord, path) ==
    LET size == calculate_dir_size(f, path)
        r == remove_dir_all(f, lck, ord, path)
    IN  [ok |-> r.ok, size |-> size, fs |-> r.fs, msg |-> r.msg]

\* execute_clean: the path is equal to or nested under a path deleted earlier
\* in this execution
already_deleted(deleted_paths, path) ==
    \E d \in 1..Len(deleted_paths) : starts_with(path, deleted_paths[d])

\* a dry run that removes what it reports
dry_run_step_removing(st, path) ==
    IF exists(st.fs, path)
    THEN [st EXCEPT
            !.result.bytes_freed = @ + calculate_dir_size(st.fs, path),
            !.result.deleted = Append(@, path),
            !.deleted_paths = Append(@, path),
            !.fs = [q \in (DOMAIN st.fs) \ Subtree(st.fs, path) |-> st.fs[q]]]
    ELSE st

\* a dry run that reports a path without looking whether it exists
dry_run_step_unchecked(st, path) ==
    [st EXCEPT
       !.result.bytes_freed = @ + calculate_dir_size(st.fs, path),
       !.result.deleted = Append(@, path),
       !.deleted_paths = Append(@, path)]

\* execute_clean, one path of a dry run
dry_run_step(st, path) ==
    IF exists(st.fs, path)
    THEN [st EXCEPT
            !.result.bytes_freed = @ + calculate_dir_size(st.fs, path),
            !.result.deleted = Append(@, path),
            !.deleted_paths = Append(@, path)]
    ELSE st

\* a real run that records a failed removal as deleted too
real_step_failed_as_deleted(st, path, lck, ord) ==
    IF ~exists(st.fs, path)
    THEN st
    ELSE LET d == delete_directory(st.fs, lck, ord, path)
         IN  IF d.ok
             THEN [st EXCEPT
                     !.result.bytes_freed = @ + d.size,
                     !.result.deleted = Append(@, path),
                     !.deleted_paths = Append(@, path),
                     !.fs = d.fs]
             ELSE [st EXCEPT
                     !.result.failed = Append(@, << path, d.msg >>),
                     !.result.deleted = Append(@, path),
                     !.fs = d.fs]

\* a real run that drops a failed removal
real_step_failure_dropped(st, path, lck, ord) ==
    IF ~exists(st.fs, path)
    THEN st
    ELSE LET d == delete_directory(st.fs, lck, ord, path)
         IN  IF d.ok
             THEN [st EXCEPT
                     !.result.bytes_freed = @ + d.size,
                     !.result.deleted = Append(@, path),
                     !.deleted_paths = Append(@, path),
                     !.fs = d.fs]
             ELSE [st EXCEPT !.fs = d.fs]

\* execute_clean, one path of a real run
real_step(st, path, lck, ord) ==
    IF ~exists(st.fs, path)
    THEN st
    ELSE LET d == delete_directory(st.fs, lck, ord, path)
         IN  IF d.ok
             THEN [st EXCEPT
                     !.result.bytes_freed = @ + d.size,
                     !.result.deleted = Append(@, path),
                     !.deleted_paths = Append(@, path),
                     !.fs = d.fs]
             ELSE [st EXCEPT
                     !.result.failed = Append(@, << path, d.msg >>),
                     !.fs = d.fs]

\* the for loop of execute_clean from path i of the plan on
RECURSIVE CleanLoop(_, _, _, _, _)
CleanLoop(pl, i, st, lck, ord) ==
    IF i > Len(pl.paths) THEN st
    ELSE IF already_deleted(st.deleted_paths, pl.paths[i])
         THEN CleanLoop(pl, i + 1, st, lck, ord)
         ELSE IF pl.dry_run
         THEN CleanLoop(pl, i + 1, dry_run_step(st, pl.paths[i]), lck, ord)
         ELSE CleanLoop(pl, i + 1, real_step(st, pl.paths[i], lck, ord), lck, ord)

\* an executor that walks the plan back to front
execute_clean_reversed(pl, f, lck, ord) ==
    LET n == Len(pl.paths)
        rev == [pl EXCEPT !.paths = [i \in 1..n |-> pl.paths[n + 1 - i]]]
        st == CleanLoop(rev, 1,
                        [result |-> CleanResult(pl.dry_run),
                         deleted_paths |-> << >>, fs |-> f],
                        lck, ord)
    IN  [res |-> [tag |-> "Ok", value |-> st.result], fs |-> st.fs]

\* cleaner.rs execute_clean: the CleanResult and the filesystem it leaves
execute_clean(pl, f, lck, ord) ==
    LET st == CleanLoop(pl, 1,
                        [result |-> CleanResult(pl.dry_run),
                         deleted_paths |-> << >>, fs |-> f],
                        lck, ord)
    IN  [res |-> [tag |-> "Ok", value |-> st.result], fs |-> st.fs]

----------------------------------------------------------------------------
(* GUI: the progress throttle of scan_paths, commands.rs *)

\* scan workers that invoke the progress callback
MaxGuiWorkers == 2
GuiWorkers == 1..MaxGuiWorkers

\* invocations of the callback per worker
MaxCallbacks == 2

\* advances of the system time during the scan
MaxTicks == 2

\* the throttle interval in milliseconds
ThrottleMs == 50

\* the system time when the scan starts, in milliseconds since the epoch
ClockStart == 100

\* the amounts by which the system time advances between two steps
TickSteps == {25, 50}

\* a worker outside the callback
CbIdle == [pc |-> "idle", now |-> 0, last |-> 0, calls |-> 0]

----------------------------------------------------------------------------
(* CLI: main.rs.  A string the program inspects is a sequence of characters *)

\* format!("{:?}", kind): the variant name
DebugName(kind) ==
    CASE kind = "PythonVenv" -> << "P", "y", "t", "h", "o", "n", "V", "e", "n", "v" >>
      [] kind = "PythonTox" -> << "P", "y", "t", "h", "o", "n", "T", "o", "x" >>
      [] kind = "PythonCache" -> << "P", "y", "t", "h", "o", "n", "C", "a", "c", "h", "e" >>
      [] kind = "MypyCache" -> << "M", "y", "p", "y", "C", "a", "c", "h", "e" >>
      [] kind = "PytestCache" -> << "P", "y", "t", "e", "s", "t", "C", "a", "c", "h", "e" >>
      [] kind = "NodeModules" -> << "N", "o", "d", "e", "M", "o", "d", "u", "l", "e", "s" >>
      [] kind = "RustTarget" -> << "R", "u", "s", "t", "T", "a", "r", "g", "e", "t" >>
      [] kind = "BuildDir" -> << "B", "u", "i", "l", "d", "D", "i", "r" >>
      [] kind = "DistDir" -> << "D", "i", "s", "t", "D", "i", "r" >>
      [] kind = "OutDir" -> << "O", "u", "t", "D", "i", "r" >>
      [] kind = "GoVendor" -> << "G", "o", "V", "e", "n", "d", "o", "r" >>
      [] kind = "NextDir" -> << "N", "e", "x", "t", "D", "i", "r" >>
      [] kind = "NuxtDir" -> << "N", "u", "x", "t", "D", "i", "r" >>

Uppers ==
    << "A", "B", "C", "D", "E", "F", "G", "H", "I", "J", "K", "L", "M",
       "N", "O", "P", "Q", "R", "S", "T", "U", "V", "W", "X", "Y", "Z" >>
Lowers ==
    << "a", "b", "c", "d", "e", "f", "g", "h", "i", "j", "k", "l", "m",
       "n", "o", "p", "q", "r", "s", "t", "u", "v", "w", "x", "y", "z" >>

\* the lower-case form of a character
lower_char(c) ==
    IF \E i \in 1..Len(Uppers) : Uppers[i] = c
    THEN Lowers[CHOOSE i \in 1..Len(Uppers) : Uppers[i] = c]
    ELSE c

\* str::to_lowercase
to_lowercase(str) == [i \in 1..Len(str) |-> lower_char(str[i])]

\* str::contains: needle occurs in hay as a substring
str_contains(hay, needle) ==
    \E i \in 0..(Len(hay) - Len(needle)) :
        SubSeq(hay, i + 1, i + Len(needle)) = needle

\* the characters str::trim removes
Whitespace == {" ", "\n", "\t"}

\* str::trim: without the leading and the trailing whitespace
RECURSIVE trim_start(_)
trim_start(str) ==
    IF str # << >> /\ Head(str) \in Whitespace THEN trim_start(Tail(str)) ELSE str
RECURSIVE trim_end(_)
trim_end(str) ==
    IF str # << >> /\ str[Len(str)] \in Whitespace
    THEN trim_end(SubSeq(str, 1, Len(str) - 1)) ELSE str
trim(str) == trim_end(trim_start(str))

\* str::eq_ignore_ascii_case
eq_ignore_ascii_case(a, b) == to_lowercase(a) = to_lowercase(b)

\* a confirmation that accepts every answer that starts with y
confirmed_by_first_letter(input) ==
    trim(input) # << >> /\ lower_char(trim(input)[1]) = "y"

\* main: the test of the answer to `Continue? [y/N]`
confirmed(input) == eq_ignore_ascii_case(trim(input), << "y" >>)

\* the arguments of `devjunk clean`
CleanArgs(paths, dry_run, max_depth, kind, yes) ==
    [paths |-> paths, dry_run |-> dry_run, max_depth |-> max_depth,
     kind |-> kind, yes |-> yes]

\* nothing read from stdin; a read_line that returned an error
NoInput == [tag |-> "none"]
ReadError == [tag |-> "Err"]
Line(str) == [tag |-> "Ok", line |-> str]

\* the lines the clean command prints when it ends without cleaning
NoJunkMsg == "No junk directories found."
AbortedMsg == "Aborted."

----------------------------------------------------------------------------
(* The environment: the tree is built before the scan is called *)

EnvMkdir(names) ==
    /\ pc = "setup"
    /\ Cardinality(DOMAIN fs) <= MaxEntries
    /\ \E d \in DOMAIN fs, n \in names :
          /\ is_dir(fs, d)
          /\ Len(d) < MaxPathLen
          /\ ~exists(fs, Append(d, n))
          /\ fs' = (Append(d, n) :> DirEnt) @@ fs
    /\ UNCHANGED <<pc, scanVars, cleanVars, extVars>>

EnvCreateFile(names) ==
    /\ pc = "setup"
    /\ Cardinality(DOMAIN fs) <= MaxEntries
    /\ \E d \in DOMAIN fs, n \in names, len \in FileLens :
          /\ is_dir(fs, d)
          /\ Len(d) < MaxPathLen
          /\ ~exists(fs, Append(d, n))
          /\ fs' = (Append(d, n) :> FileEnt(len)) @@ fs
    /\ UNCHANGED <<pc, scanVars, cleanVars, extVars>>

----------------------------------------------------------------------------
(* scan: validation, one worker per root, collect and sort *)

ScanConfig(roots, pats, excl, depth, hidden) ==
    [roots |-> roots, include_patterns |-> pats, exclude_paths |-> excl,
     max_depth |-> depth, include_hidden |-> hidden]

NoConfig == ScanConfig(<< >>, << >>, << >>, NoLimit, FALSE)

\* build_scan_config: the closure that filters JunkKind::all()
kind_filter(kind, kind_filters) ==
    \E f \in 1..Len(kind_filters) :
        str_contains(to_lowercase(DebugName(kind)), to_lowercase(kind_filters[f]))

\* main.rs build_scan_config
build_scan_config(paths, max_depth, include_hidden, kind_filters) ==
    LET patterns_ == SelectSeq(JunkKindAll, LAMBDA k : kind_filter(k, kind_filters))
    IN  ScanConfig(paths,
                   IF kind_filters # << >> /\ patterns_ # << >>
                   THEN patterns_ ELSE JunkKindAll,
                   << >>, max_depth, include_hidden)

\* the clean command before it is run
NoCleanArgs == CleanArgs(<< >>, FALSE, NoLimit, << >>, FALSE)

InitCliVars ==
    /\ args = NoCleanArgs
    /\ stdin = NoInput
    /\ out = << >>

\* no call of calculate_dir_stats yet
NoStats == [path |-> << >>, seq |-> << 0, 0 >>, par |-> << 0, 0 >>,
            ret |-> << 0, 0 >>]

\* scan is called: the roots are validated before any worker starts
ScanCall(cfg) ==
    /\ pc = "setup"
    /\ config' = cfg
    /\ LET v == validate_roots(fs, cfg.roots, 1)
       IN  IF v.tag = "Err"
           THEN /\ pc' = "failed"
                /\ result' = v
                /\ UNCHANGED partial
           ELSE /\ pc' = "scanning"
                /\ partial' = [i \in 1..Len(cfg.roots) |-> << >>]
                /\ UNCHANGED result
    /\ UNCHANGED <<fs, finished, prev, cleanVars, extVars>>

\* the worker of root i runs scan_root and returns
Worker(i) ==
    /\ pc = "scanning"
    /\ i \in 1..Len(config.roots)
    /\ i \notin finished
    /\ \E ord \in NameOrders :
          partial' = [partial EXCEPT ![i] = scan_root(fs, config, ord, config.roots[i])]
    /\ finished' = finished \cup {i}
    /\ UNCHANGED <<fs, pc, config, result, prev, cleanVars, extVars>>

\* all workers have returned: collect, sort, return Ok
Collect ==
    /\ pc = "scanning"
    /\ finished = 1..Len(config.roots)
    /\ result' = Ok(sort_by_size(collect(partial, 1)))
    /\ pc' = "done"
    /\ UNCHANGED <<fs, config, finished, partial, prev, cleanVars, extVars>>

----------------------------------------------------------------------------
(* Specification of a scan of one root *)

\* the include_patterns lists the scans are called with
PatternChoices == { << >>, JunkKindAll, << "NodeModules" >> }

\* the max_depth values the scans are called with
DepthChoices == {NoLimit} \cup (0..(MaxPathLen - 2))

OneRootConfigs ==
    { ScanConfig(<< r >>, pats, << >>, depth, hidden) :
        r \in { p \in DOMAIN fs : Len(p) = 1 }, pats \in PatternChoices,
        depth \in DepthChoices, hidden \in BOOLEAN }

\* the state of the core library before any call
InitCore ==
    /\ fs = (<< >> :> DirEnt)
    /\ config = NoConfig
    /\ finished = {}
    /\ partial = << >>
    /\ result = NoResult
    /\ prev = NoResult
    /\ planArgs = NoArgs
    /\ plan = NoPlan
    /\ locked = {}
    /\ vanished = {}
    /\ fs0 = fs
    /\ cres = NoResult
    /\ dirStats = NoStats

\* scan_paths before the scan starts: last_emit = AtomicU64::new(0)
InitGuiVars ==
    /\ clock = ClockStart
    /\ last_emit = 0
    /\ cb = [w \in GuiWorkers |-> CbIdle]
    /\ emitted = << >>

Init ==
    /\ InitCore
    /\ pc = "setup"
    /\ catalog = NoCatalog
    /\ InitGuiVars
    /\ InitCliVars

Next ==
    \/ EnvMkdir(Names)
    \/ EnvCreateFile(Names)
    \/ \E cfg \in OneRootConfigs : ScanCall(cfg)
    \/ \E i \in 1..1 : Worker(i)
    \/ Collect

Spec == Init /\ [][Next]_vars

----------------------------------------------------------------------------
(* Properties of a scan of one root *)

TheRoot == config.roots[1]
Items == result.items
ItemPaths == { Items[i].path : i \in 1..Len(Items) }

\* levels of p below the root of the scan
DepthOf(p) == Len(p) - Len(TheRoot)

\* some kind of the active include patterns has name as a pattern
MatchesActive(name) ==
    \E i \in 1..Len(config.include_patterns) :
        \E j \in 1..Len(patterns(config.include_patterns[i])) :
            patterns(config.include_patterns[i])[j] = name

\* the proper ancestors of p inside the scanned tree, the root included
AncestorsInTree(p) ==
    { SubSeq(p, 1, k) : k \in Len(TheRoot)..(Len(p) - 1) }

WithinDepth(p) ==
    config.max_depth = NoLimit \/ DepthOf(p) <= config.max_depth

\* the maximal matching directories of the tree within the depth limit
MaximalMatches ==
    { p \in Subtree(fs, TheRoot) :
        /\ fs[p].kind = "dir"
        /\ WithinDepth(p)
        /\ MatchesActive(file_name(p))
        /\ \A a \in AncestorsInTree(p) : ~MatchesActive(file_name(a)) }

OneRootDone ==
    /\ pc = "done"
    /\ Len(config.roots) = 1
    /\ file_name(TheRoot) \notin DotNames
    /\ config.exclude_paths = << >>

\* C1: for one root whose name does not start with '.', no exclude paths and
\* include_hidden = true, for every pattern list, tree and max_depth, the
\* paths of the returned items are exactly the directories of the tree within
\* the depth limit whose name matches an active pattern and that have no
\* proper ancestor in the tree whose name matches; each is emitted once, with
\* a kind of the include patterns that has the name as a pattern.
C1_MaximalMatches ==
    (OneRootDone /\ config.include_hidden) =>
        /\ ItemPaths = MaximalMatches
        /\ Len(Items) = Cardinality(MaximalMatches)
        /\ \A i \in 1..Len(Items) :
              /\ \E k \in 1..Len(config.include_patterns) :
                    config.include_patterns[k] = Items[i].kind
              /\ \E j \in 1..Len(patterns(Items[i].kind)) :
                    patterns(Items[i].kind)[j] = file_name(Items[i].path)

\* a scan that emitted a junk directory and left out one nested inside it
C1_Witness ==
    /\ OneRootDone /\ config.include_hidden
    /\ Len(Items) = 1
    /\ \E p \in DOMAIN fs :
          /\ fs[p].kind = "dir"
          /\ p # Items[1].path
          /\ starts_with(p, Items[1].path)
          /\ MatchesActive(file_name(p))

\* a directory the hidden filter rejects: hidden and no active pattern
HiddenSkipped(p) ==
    /\ fs[p].kind = "dir"
    /\ file_name(p) \in DotNames
    /\ ~MatchesActive(file_name(p))

\* C10: with include_hidden = false and a root whose name does not start with
\* '.', a directory (within the depth limit, if any) whose name starts with
\* '.' and matches an active pattern is emitted when no proper ancestor in the
\* tree is matched or skipped; no item lies at or beneath a directory whose
\* name starts with '.' and matches no active pattern.
C10_HiddenJunkFound ==
    (OneRootDone /\ ~config.include_hidden) =>
        /\ \A p \in Subtree(fs, TheRoot) :
              ( /\ fs[p].kind = "dir"
                /\ file_name(p) \in DotNames
                /\ MatchesActive(file_name(p))
                /\ WithinDepth(p)
                /\ \A a \in AncestorsInTree(p) :
                      ~MatchesActive(file_name(a)) /\ ~HiddenSkipped(a) )
              => p \in ItemPaths
        /\ \A q \in Subtree(fs, TheRoot) :
              HiddenSkipped(q) =>
                 \A i \in 1..Len(Items) : ~starts_with(Items[i].path, q)

\* a scan that emitted a hidden junk directory next to a hidden directory
\* that is no junk
C10_Witness ==
    /\ OneRootDone /\ ~config.include_hidden
    /\ \E i \in 1..Len(Items) : file_name(Items[i].path) \in DotNames
    /\ \E q \in Subtree(fs, TheRoot) : HiddenSkipped(q)

----------------------------------------------------------------------------
(* Specification of scans of several roots by parallel workers *)

\* roots per scan call
MaxRoots == 2

\* the names of the trees these scans run on
ParNames == {"proj", "node_modules"}

\* the paths a root list is drawn from: the entries that exist and a path
\* that may be missing
RootCandidates == ((DOMAIN fs) \ {<< >>}) \cup {<< "proj" >>}

RootLists ==
    UNION { [1..n -> RootCandidates] : n \in 1..MaxRoots }

\* ScanConfig::new(roots).with_hidden(true)
SeveralRootsConfigs ==
    { ScanConfig(roots, JunkKindAll, << >>, NoLimit, TRUE) : roots \in RootLists }

\* scan is called again with the same config on the unmodified tree
Rescan ==
    /\ pc = "done"
    /\ prev.tag = "none"
    /\ validate_roots(fs, config.roots, 1).tag = "Ok"
    /\ prev' = result
    /\ pc' = "scanning"
    /\ finished' = {}
    /\ partial' = [i \in 1..Len(config.roots) |-> << >>]
    /\ result' = NoResult
    /\ UNCHANGED <<fs, config, cleanVars, extVars>>

NextPar ==
    \/ EnvMkdir(ParNames)
    \/ EnvCreateFile(ParNames)
    \/ \E cfg \in SeveralRootsConfigs : ScanCall(cfg)
    \/ \E i \in 1..MaxRoots : Worker(i)
    \/ Collect
    \/ Rescan

SpecPar == Init /\ [][NextPar]_vars

\* the root at index i is missing or is not a directory
BadRoot(i) == config.roots[i] \notin DOMAIN fs \/ fs[config.roots[i]].kind # "dir"

\* the first offending root, in config order
FirstBad == CHOOSE i \in 1..Len(config.roots) :
                BadRoot(i) /\ \A j \in 1..(i - 1) : ~BadRoot(j)

\* C2: scan returns an error iff some root is missing or is not a directory;
\* the error is PathNotFound(root) when the first offending root does not
\* exist and NotADirectory(root) when it exists but is not a directory; when
\* an error is returned no root has been traversed and no item is produced.
C2_RootsValidatedFirst ==
    (pc # "setup") =>
        /\ (pc = "failed") <=> (\E i \in 1..Len(config.roots) : BadRoot(i))
        /\ (pc = "failed") <=> (result.tag = "Err")
        /\ (pc = "failed") =>
              /\ result.path = config.roots[FirstBad]
              /\ result.kind = IF config.roots[FirstBad] \in DOMAIN fs
                               THEN "NotADirectory" ELSE "PathNotFound"
              /\ finished = {}
              /\ partial = << >>

\* a scan of a valid root followed by a file failed with NotADirectory
C2_Witness ==
    /\ pc = "failed"
    /\ Len(config.roots) = 2
    /\ ~BadRoot(1)
    /\ result = Err("NotADirectory", config.roots[2])

\* the bag of the items of a ScanResult
ItemBag(items) ==
    [ x \in { items[i] : i \in 1..Len(items) } |->
        Cardinality({ i \in 1..Len(items) : items[i] = x }) ]

\* C9: for a fixed config and unmodified tree, every order in which the
\* workers run and finish, and every repeated call, yields the same bag of
\* items, and the returned sequence is sorted by size_bytes, largest first.
C9_OrderIndependent ==
    (pc = "done") =>
        /\ \A i \in 1..(Len(Items) - 1) :
              Items[i].size_bytes >= Items[i + 1].size_bytes
        /\ (prev.tag = "Ok") => ItemBag(Items) = ItemBag(prev.items)

\* a second call over two roots returned two items of different sizes, the
\* item of the second root first
C9_Witness ==
    /\ pc = "done"
    /\ prev.tag = "Ok"
    /\ Len(config.roots) = 2
    /\ Len(Items) = 2
    /\ Items[1].size_bytes > Items[2].size_bytes
    /\ starts_with(Items[1].path, config.roots[2])
    /\ ~starts_with(Items[1].path, config.roots[1])

----------------------------------------------------------------------------
(* Specification of the planner: a scan, then build_clean_plan *)

\* entries of a selection
MaxSelection == 2

\* a path no scan reports: its name is no pattern
StalePath == << "proj" >>

\* the selections build_clean_plan is called with
Selections ==
    UNION { [1..n -> ItemPaths \cup {StalePath}] : n \in 0..MaxSelection }

\* the paths of all items, as the CLI selects them
AllPaths == [i \in 1..Len(Items) |-> Items[i].path]

\* build_clean_plan is called on the result of the scan
BuildPlan(selection, dry_run) ==
    /\ pc = "done"
    /\ planArgs' = [selection |-> selection, dry_run |-> dry_run]
    /\ plan' = build_clean_plan(result, selection, dry_run)
    /\ pc' = "planned"
    /\ UNCHANGED <<fs, scanVars, locked, vanished, fs0, cres, extVars>>

NextPlan ==
    \/ EnvMkdir(ParNames)
    \/ EnvCreateFile(ParNames)
    \/ \E cfg \in SeveralRootsConfigs : ScanCall(cfg)
    \/ \E i \in 1..MaxRoots : Worker(i)
    \/ Collect
    \/ /\ pc = "done"
       /\ \E sel \in Selections, dry \in BOOLEAN : BuildPlan(sel, dry)

SpecPlan == Init /\ [][NextPlan]_vars

SelectionSet ==
    { planArgs.selection[i] : i \in 1..Len(planArgs.selection) }

\* C8: the plan's paths are exactly the paths of result.items that occur in
\* the selection, in the order of result.items; a selection entry absent from
\* the result is dropped, so every plan path is a path of the result; a
\* repeated selection entry repeats no plan path; plan.dry_run is the
\* dry_run argument.
C8_PlanIsSelectedItems ==
    (pc = "planned") =>
        /\ plan.paths = SelectSeq(AllPaths, LAMBDA q : q \in SelectionSet)
        /\ \A i \in 1..Len(plan.paths) : plan.paths[i] \in ItemPaths
        /\ \A q \in SelectionSet :
              Cardinality({ i \in 1..Len(plan.paths) : plan.paths[i] = q })
                = Cardinality({ i \in 1..Len(Items) : Items[i].path = q })
        /\ plan.dry_run = planArgs.dry_run

\* a plan of two paths in the order of the result, selected in the other order
C8_Witness ==
    /\ pc = "planned"
    /\ Len(Items) = 2
    /\ Items[1].path # Items[2].path
    /\ planArgs.selection = << Items[2].path, Items[1].path >>
    /\ plan.paths = << Items[1].path, Items[2].path >>

----------------------------------------------------------------------------
(* Specification of the cleaner: a scan, a plan of all items, execute_clean *)

\* entries whose removal fails
MaxLocked == 1

\* plan paths removed out-of-band between the scan and execute_clean
MaxVanished == 1

PlanPaths == { plan.paths[i] : i \in 1..Len(plan.paths) }

\* out-of-band, a plan path is removed with its subtree
EnvVanish ==
    /\ pc = "planned"
    /\ Cardinality(vanished) < MaxVanished
    /\ \E p \in PlanPaths :
          /\ exists(fs, p)
          /\ fs' = [q \in (DOMAIN fs) \ Subtree(fs, p) |-> fs[q]]
          /\ vanished' = vanished \cup {p}
    /\ UNCHANGED <<pc, scanVars, planArgs, plan, locked, fs0, cres, extVars>>

\* out-of-band, an entry at or under a plan path becomes unremovable
EnvLock ==
    /\ pc = "planned"
    /\ Cardinality(locked) < MaxLocked
    /\ \E p \in DOMAIN fs :
          /\ p \notin locked
          /\ \E q \in PlanPaths : starts_with(p, q)
          /\ locked' = locked \cup {p}
    /\ UNCHANGED <<fs, pc, scanVars, planArgs, plan, vanished, fs0, cres, extVars>>

\* execute_clean is called on the plan
ExecuteClean ==
    /\ pc = "planned"
    /\ \E ord \in NameOrders :
          LET r == execute_clean(plan, fs, locked, ord)
          IN  /\ cres' = r.res
              /\ fs' = r.fs
    /\ fs0' = fs
    /\ pc' = "cleaned"
    /\ UNCHANGED <<scanVars, planArgs, plan, locked, vanished, extVars>>

NextClean ==
    \/ EnvMkdir(ParNames)
    \/ EnvCreateFile(ParNames)
    \/ \E cfg \in SeveralRootsConfigs : ScanCall(cfg)
    \/ \E i \in 1..MaxRoots : Worker(i)
    \/ Collect
    \/ \E dry \in BOOLEAN : BuildPlan(AllPaths, dry)
    \/ EnvVanish
    \/ EnvLock
    \/ ExecuteClean

SpecClean == Init /\ [][NextClean]_vars

\* the paths of the result of execute_clean
Deleted == { cres.value.deleted[i] : i \in 1..Len(cres.value.deleted) }
Failed == { cres.value.failed[i][1] : i \in 1..Len(cres.value.failed) }

PlanIndices == 1..Len(plan.paths)

\* q is a proper descendant of p
NestedUnder(q, p) == q # p /\ starts_with(q, p)

\* the first index of a path in the plan
FirstIndex(p) ==
    CHOOSE i \in PlanIndices :
        plan.paths[i] = p /\ \A k \in 1..(i - 1) : plan.paths[k] # p

\* C3: a dry run leaves the filesystem unchanged: every plan path and every
\* entry beneath it that existed before the call exists after it, and
\* was_dry_run is true.
C3_DryRunKeepsFilesystem ==
    (pc = "cleaned" /\ plan.dry_run) =>
        /\ fs = fs0
        /\ \A p \in PlanPaths : Subtree(fs0, p) \subseteq DOMAIN fs
        /\ cres.tag = "Ok"
        /\ cres.value.was_dry_run

\* a dry run that reported a directory with bytes in it
C3_Witness ==
    /\ pc = "cleaned"
    /\ plan.dry_run
    /\ Len(cres.value.deleted) >= 1
    /\ cres.value.bytes_freed > 0

\* C4 as stated: in a real run with no deletion failing, a plan path nested
\* under another plan path, in whichever order the two appear, is in neither
\* deleted nor failed.
C4_AnyOrder ==
    (pc = "cleaned" /\ ~plan.dry_run /\ locked = {} /\ vanished = {}
        /\ cres.value.failed = << >>) =>
        \A i, j \in PlanIndices :
            NestedUnder(plan.paths[j], plan.paths[i]) =>
                /\ plan.paths[j] \notin Deleted
                /\ plan.paths[j] \notin Failed

\* C4 amended: in a real run with no deletion failing, a plan path nested
\* under a plan path that comes first in the plan (first occurrences) is in
\* neither deleted nor failed, and no path is listed in deleted twice.
C4_ParentFirst ==
    (pc = "cleaned" /\ ~plan.dry_run /\ cres.value.failed = << >>) =>
        /\ \A i, j \in PlanIndices :
              ( /\ NestedUnder(plan.paths[j], plan.paths[i])
                /\ FirstIndex(plan.paths[i]) < FirstIndex(plan.paths[j]) )
              => /\ plan.paths[j] \notin Deleted
                 /\ plan.paths[j] \notin Failed
        /\ \A k, l \in 1..Len(cres.value.deleted) :
              k # l => cres.value.deleted[k] # cres.value.deleted[l]

\* a real run of a plan of a directory and then its descendant deleted the
\* directory only
C4_Witness ==
    /\ pc = "cleaned" /\ ~plan.dry_run
    /\ Len(plan.paths) = 2
    /\ NestedUnder(plan.paths[2], plan.paths[1])
    /\ plan.paths[2] \in DOMAIN fs0
    /\ cres.value.deleted = << plan.paths[1] >>
    /\ cres.value.failed = << >>

\* the plan paths whose removal fails: an unremovable entry lies at or under
FailingIndices ==
    { i \in PlanIndices : \E l \in locked : starts_with(l, plan.paths[i]) }

\* the plan's paths are distinct, pairwise non-nested and exist at the call
PlanIndependent ==
    /\ \A i, j \in PlanIndices :
          i # j => ~starts_with(plan.paths[i], plan.paths[j])
    /\ \A i \in PlanIndices : plan.paths[i] \in DOMAIN fs0

\* C5: execute_clean returns Ok; a real run over N distinct, pairwise
\* non-nested, existing paths of which exactly one fails has
\* deleted_count = N-1, every other path in deleted, exactly one entry in
\* failed (the failing path with its error message), and is_success false.
C5_OneFailureKeepsGoing ==
    (pc = "cleaned") =>
        /\ cres.tag = "Ok"
        /\ ( ~plan.dry_run /\ PlanIndependent /\ Cardinality(FailingIndices) = 1 )
           => /\ deleted_count(cres.value) = Len(plan.paths) - 1
              /\ \A i \in PlanIndices \ FailingIndices : plan.paths[i] \in Deleted
              /\ Len(cres.value.failed) = 1
              /\ \A i \in FailingIndices :
                    cres.value.failed[1] = << plan.paths[i], PermissionDenied >>
              /\ ~is_success(cres.value)

\* a real run whose first path failed and whose second path was deleted
C5_Witness ==
    /\ pc = "cleaned" /\ ~plan.dry_run
    /\ PlanIndependent
    /\ Len(plan.paths) = 2
    /\ FailingIndices = {1}
    /\ cres.value.deleted = << plan.paths[2] >>
    /\ Len(cres.value.failed) = 1

\* the plan without the paths that did not exist at the call
PlanOfExisting ==
    CleanPlan(SelectSeq(plan.paths, LAMBDA q : q \in DOMAIN fs0), plan.dry_run)

\* C6: a plan path that does not exist when execute_clean is called is in
\* neither deleted nor failed, in a real and in a dry run, and the result
\* (bytes_freed included) and the filesystem are those of the plan without it.
C6_VanishedPathSkipped ==
    (pc = "cleaned") =>
        /\ \A i \in PlanIndices :
              plan.paths[i] \notin DOMAIN fs0 =>
                  /\ plan.paths[i] \notin Deleted
                  /\ plan.paths[i] \notin Failed
        /\ \E ord \in NameOrders :
              execute_clean(PlanOfExisting, fs0, locked, ord)
                 = [res |-> cres, fs |-> fs]

\* a real run one path of which had vanished and the other was deleted
C6_Witness ==
    /\ pc = "cleaned" /\ ~plan.dry_run
    /\ Len(plan.paths) = 2
    /\ plan.paths[2] \in vanished
    /\ plan.paths[2] \notin DOMAIN fs0
    /\ cres.value.deleted = << plan.paths[1] >>
    /\ cres.value.bytes_freed > 0

\* the plan path is covered by a path listed in deleted
Covered(p) == \E d \in Deleted : starts_with(p, d)

\* C7 as stated: deleted and failed are disjoint and every plan path is
\* listed in deleted, listed in failed, or nested under a deleted path.
C7_ThreeOutcomes ==
    (pc = "cleaned") =>
        /\ Deleted \cap Failed = {}
        /\ \A i \in PlanIndices :
              \/ plan.paths[i] \in Deleted
              \/ plan.paths[i] \in Failed
              \/ Covered(plan.paths[i])

\* C7 amended: deleted and failed are disjoint and every plan path is listed
\* in deleted, or listed in failed, or else nested under a deleted path, or
\* else it does not exist (it did not exist when execute_clean reached it).
C7_FourOutcomes ==
    (pc = "cleaned") =>
        /\ Deleted \cap Failed = {}
        /\ \A i \in PlanIndices :
              \/ plan.paths[i] \in Deleted
              \/ plan.paths[i] \in Failed
              \/ Covered(plan.paths[i])
              \/ plan.paths[i] \notin DOMAIN fs

\* a real run with a failed path and a path that had vanished
C7_Witness ==
    /\ pc = "cleaned" /\ ~plan.dry_run
    /\ Len(cres.value.failed) = 1
    /\ \E i \in PlanIndices :
          /\ plan.paths[i] \in vanished
          /\ plan.paths[i] \notin Deleted \cup Failed
          /\ ~Covered(plan.paths[i])

----------------------------------------------------------------------------
(* Specification of a scan of one root with exclude paths *)

\* the exclude_paths lists the scans are called with: none, one or two of the
\* entries of the tree
ExcludeLists ==
    LET E == (DOMAIN fs) \ {<< >>}
    IN  {<< >>} \cup { << e >> : e \in E } \cup { << e1, e2 >> : e1 \in E, e2 \in E }

\* ScanConfig::new(vec![root]) with exclude_paths set
ExcludeConfigs ==
    { ScanConfig(<< r >>, JunkKindAll, excl, NoLimit, FALSE) :
        r \in { p \in DOMAIN fs : Len(p) = 1 }, excl \in ExcludeLists }

NextExcl ==
    \/ EnvMkdir(ParNames)
    \/ EnvCreateFile(ParNames)
    \/ \E cfg \in ExcludeConfigs : ScanCall(cfg)
    \/ \E i \in 1..1 : Worker(i)
    \/ Collect

SpecExcl == Init /\ [][NextExcl]_vars

\* the config of the scan before its last exclude path was added
ConfigBeforeLastExclude ==
    [config EXCEPT !.exclude_paths = SubSeq(@, 1, Len(@) - 1)]

LastExclude == config.exclude_paths[Len(config.exclude_paths)]

\* C11: no returned item has a path equal to or nested under an exclude path;
\* the items of a scan with an exclude path added are the items of the scan
\* without it that are not equal to or nested under the added path, so every
\* match outside the excluded subtree is still found.
C11_ExcludedSubtreesOnly ==
    (pc = "done") =>
        /\ \A i \in 1..Len(Items) : \A e \in 1..Len(config.exclude_paths) :
              ~starts_with(Items[i].path, config.exclude_paths[e])
        /\ (config.exclude_paths # << >>) =>
              \A ord \in NameOrders :
                 ItemBag(Items) =
                    ItemBag(SelectSeq(scan_root(fs, ConfigBeforeLastExclude, ord, TheRoot),
                                      LAMBDA it : ~starts_with(it.path, LastExclude)))

\* a scan that excluded a plain directory with a junk directory inside and
\* still found a junk directory outside it
C11_Witness ==
    /\ pc = "done"
    /\ Len(config.exclude_paths) = 1
    /\ ~MatchesActive(file_name(LastExclude))
    /\ \E p \in DOMAIN fs :
          /\ NestedUnder(p, LastExclude)
          /\ is_dir(fs, p)
          /\ MatchesActive(file_name(p))
    /\ Len(Items) = 1
    /\ ~starts_with(Items[1].path, LastExclude)

----------------------------------------------------------------------------
(* Specification of size aggregation: calculate_dir_stats on its own and as *)
(* scan_root calls it                                                       *)

\* the names of the trees that are aggregated: a pattern, a hidden name and a
\* plain name
StatNames == {"node_modules", ".git", "proj"}

\* the environment creates a regular file whose metadata cannot be read
EnvCreateUnreadableFile(names) ==
    /\ pc = "setup"
    /\ Cardinality(DOMAIN fs) <= MaxEntries
    /\ \E d \in DOMAIN fs, n \in names, len \in FileLens :
          /\ is_dir(fs, d)
          /\ Len(d) < MaxPathLen
          /\ ~exists(fs, Append(d, n))
          /\ fs' = (Append(d, n) :> UnreadableFileEnt(len)) @@ fs
    /\ UNCHANGED <<pc, scanVars, cleanVars, extVars>>

\* the environment creates a symbolic link to a regular file
EnvSymlink(names) ==
    /\ pc = "setup"
    /\ Cardinality(DOMAIN fs) <= MaxEntries
    /\ \E d \in DOMAIN fs, n \in names, len \in FileLens :
          /\ is_dir(fs, d)
          /\ Len(d) < MaxPathLen
          /\ ~exists(fs, Append(d, n))
          /\ fs' = (Append(d, n) :> SymlinkEnt(len)) @@ fs
    /\ UNCHANGED <<pc, scanVars, cleanVars, extVars>>

\* calculate_dir_stats is called on a directory; both branches are run on
\* the entries of its walk
StatsCall ==
    /\ pc = "setup"
    /\ \E path \in DOMAIN fs, ord \in NameOrders :
          /\ is_dir(fs, path)
          /\ \E par \in stats_parallel(fs, WalkAll(fs, ord, path)),
                ret \in calculate_dir_stats_results(fs, ord, path) :
                dirStats' = [path |-> path,
                             seq |-> stats_sequential(fs, WalkAll(fs, ord, path), 1, 0, 0),
                             par |-> par,
                             ret |-> ret]
    /\ pc' = "stats"
    /\ UNCHANGED <<fs, scanVars, cleanVars, catalog, guiVars, cliVars>>

\* the configs of the scans that aggregate: a depth limit, an exclude path,
\* hidden entries left out
StatsConfigs ==
    { ScanConfig(<< r >>, JunkKindAll, excl, depth, FALSE) :
        r \in { p \in DOMAIN fs : Len(p) = 1 },
        excl \in {<< >>} \cup { << e >> : e \in { p \in DOMAIN fs : Len(p) = 2 } },
        depth \in {NoLimit, 0} }

NextStats ==
    \/ EnvMkdir(StatNames)
    \/ EnvCreateFile(StatNames)
    \/ EnvCreateUnreadableFile(StatNames)
    \/ EnvSymlink(StatNames)
    \/ StatsCall
    \/ \E cfg \in StatsConfigs : ScanCall(cfg)
    \/ \E i \in 1..1 : Worker(i)
    \/ Collect

SpecStats == Init /\ [][NextStats]_vars

\* the regular files of the subtree at p, symbolic links not followed
RegularFiles(p) == { q \in Subtree(fs, p) : fs[q].kind = "file" }

\* those whose metadata can be read
ReadableFiles(p) == { q \in RegularFiles(p) : fs[q].meta }

\* C12: calculate_dir_stats(path) returns the sum of the byte lengths that
\* metadata reports for the regular files of the subtree and the number of
\* the regular files; symbolic links are not counted; the sequential branch
\* and the parallel branch, for every way the entries are split among the
\* workers, give this same pair; the pair of an item of a scan is that of the
\* whole subtree whatever max_depth, include_hidden and exclude_paths are.
C12_BranchesAgree ==
    /\ (pc = "stats") =>
          /\ dirStats.seq = << SumLen(fs, ReadableFiles(dirStats.path)),
                               Cardinality(RegularFiles(dirStats.path)) >>
          /\ dirStats.par = dirStats.seq
          /\ dirStats.ret = dirStats.seq
    /\ (pc = "done") =>
          \A i \in 1..Len(Items) :
             /\ Items[i].size_bytes = SumLen(fs, ReadableFiles(Items[i].path))
             /\ Items[i].file_count = Cardinality(RegularFiles(Items[i].path))

\* a call on a directory with two regular files of different lengths and a
\* symbolic link
C12_Witness ==
    /\ pc = "stats"
    /\ dirStats.par = << 3, 2 >>
    /\ \E q \in Subtree(fs, dirStats.path) : fs[q].kind = "symlink"

\* C13 as stated: a regular file whose metadata cannot be read adds nothing
\* to the total size and nothing to the file count, in either branch.
C13_UnreadableAddsNothing ==
    (pc = "stats") =>
        LET expected == << SumLen(fs, ReadableFiles(dirStats.path)),
                           Cardinality(ReadableFiles(dirStats.path)) >>
        IN  /\ dirStats.seq = expected
            /\ dirStats.par = expected

----------------------------------------------------------------------------
(* Specification of the pattern catalog: lookups of a name *)

\* the names listed for a kind
PatternNames(kind) == { patterns(kind)[j] : j \in 1..Len(patterns(kind)) }

\* kinds in an include_patterns list of a lookup
MaxPatterns == 2

\* the names that are looked up: every pattern of the catalog, and names that
\* differ from a pattern in case, by a character, or are a glob
LookupNames ==
    UNION { PatternNames(JunkKindAll[k]) : k \in 1..Len(JunkKindAll) }
    \cup { "", "proj", "Node_Modules", "NODE_MODULES", "node_module", "venv2",
           ".Venv", "targets", "*", "buil?", "__pycache__/" }

\* the include_patterns lists of the lookups, repeated kinds allowed
LookupPatterns ==
    UNION { [1..n -> { JunkKindAll[k] : k \in 1..Len(JunkKindAll) }] :
              n \in 0..MaxPatterns }

InitCatalog ==
    /\ InitCore
    /\ InitGuiVars
    /\ InitCliVars
    /\ pc = "catalog"
    /\ \E name \in LookupNames, pats \in LookupPatterns :
          catalog = [NoCatalog EXCEPT !.name = name, !.pats = pats]

\* the name is looked up: matches_name for every kind, from_name, and
\* find_matching_kind over the include_patterns list
Classify ==
    /\ pc = "catalog"
    /\ catalog' = [catalog EXCEPT
          !.matches = { JunkKindAll[k] : k \in
                          { i \in 1..Len(JunkKindAll) :
                              matches_name(JunkKindAll[i], catalog.name) } },
          !.from = from_name(catalog.name),
          !.found = find_matching_kind(catalog.name, catalog.pats)]
    /\ pc' = "classified"
    /\ UNCHANGED <<fs, scanVars, cleanVars, dirStats, guiVars, cliVars>>

NextCatalog == Classify

SpecCatalog == InitCatalog /\ [][NextCatalog]_vars

\* the kinds of the list of the lookup
LookupKinds == { catalog.pats[i] : i \in 1..Len(catalog.pats) }

\* C14: a kind matches a name iff the name is one of the kind's patterns; at
\* most one kind of JunkKind::all() matches a name; from_name returns that
\* kind, or None when none matches; find_matching_kind returns the kind of
\* the include patterns that matches, or None, whatever the order of the list.
C14_OneKindPerName ==
    (pc = "classified") =>
        /\ catalog.matches =
              { JunkKindAll[k] : k \in
                  { i \in 1..Len(JunkKindAll) :
                      catalog.name \in PatternNames(JunkKindAll[i]) } }
        /\ Cardinality(catalog.matches) <= 1
        /\ IF catalog.matches = {}
           THEN catalog.from = None
           ELSE catalog.from \in catalog.matches
        /\ IF catalog.matches \cap LookupKinds = {}
           THEN catalog.found = None
           ELSE catalog.found \in catalog.matches \cap LookupKinds

\* the second pattern of a kind looked up through a list whose second kind
\* matches
C14_Witness ==
    /\ pc = "classified"
    /\ catalog.name = "venv"
    /\ catalog.pats = << "NodeModules", "PythonVenv" >>
    /\ catalog.found = "PythonVenv"
    /\ catalog.from = "PythonVenv"

----------------------------------------------------------------------------
(* Dry run against real run, under SpecClean *)

\* the plan of the call, as a real run
RealPlan == [plan EXCEPT !.dry_run = FALSE]

\* C15 as stated: when no deletion of the real run fails, the dry run of a
\* plan returns the deleted sequence and the bytes_freed of the real run of
\* the same plan on the same filesystem.
C15_DryRunMatchesReal ==
    (pc = "cleaned" /\ plan.dry_run) =>
        \A ord \in NameOrders :
            LET real == execute_clean(RealPlan, fs0, locked, ord).res.value
            IN  (real.failed = << >>) =>
                    /\ cres.value.deleted = real.deleted
                    /\ cres.value.bytes_freed = real.bytes_freed

----------------------------------------------------------------------------
(* Empty include_patterns, under Spec *)

\* the config of the scan with the default patterns of ScanConfig::default
ConfigWithDefaultPatterns == [config EXCEPT !.include_patterns = JunkKindAll]

\* C16 as stated: a scan whose include_patterns is empty returns the items of
\* the scan of the same roots and tree with include_patterns = JunkKind::all().
C16_EmptyMeansDefault ==
    (pc = "done" /\ config.include_patterns = << >>) =>
        \A ord \in NameOrders :
            ItemBag(Items) =
                ItemBag(scan_root(fs, ConfigWithDefaultPatterns, ord, TheRoot))

----------------------------------------------------------------------------
(* Specification of the GUI progress throttle: the closure scan_paths gives *)
(* to scan_with_progress, invoked by the scan workers                       *)

InitGui ==
    /\ InitCore
    /\ InitGuiVars
    /\ InitCliVars
    /\ pc = "gui"
    /\ catalog = NoCatalog

\* the system time advances
Tick ==
    /\ pc = "gui"
    /\ clock < ClockStart + MaxTicks * ThrottleMs
    /\ \E d \in TickSteps : clock' = clock + d
    /\ UNCHANGED <<fs, pc, scanVars, cleanVars, dirStats, catalog, cliVars,
                   last_emit, cb, emitted>>

\* worker w invokes the callback, which reads the system time
CbNow(w) ==
    /\ pc = "gui"
    /\ cb[w].pc = "idle"
    /\ cb[w].calls < MaxCallbacks
    /\ cb' = [cb EXCEPT ![w] = [pc |-> "load", now |-> clock, last |-> @.last,
                                calls |-> @.calls + 1]]
    /\ UNCHANGED <<fs, pc, scanVars, cleanVars, dirStats, catalog, cliVars,
                   clock, last_emit, emitted>>

\* last_emit.load(Relaxed), then `now - last >= 50` in u64: when now < last
\* the subtraction panics in a build with overflow checks, and wraps to a
\* value of at least 50 in a build without
CbLoad(w) ==
    /\ pc = "gui"
    /\ cb[w].pc = "load"
    /\ \/ /\ cb[w].now >= last_emit
          /\ cb' = [cb EXCEPT ![w].last = last_emit,
                              ![w].pc = IF cb[w].now - last_emit >= ThrottleMs
                                        THEN "store" ELSE "idle"]
       \/ /\ cb[w].now < last_emit
          /\ \E next \in {"panicked", "store"} :
                cb' = [cb EXCEPT ![w].last = last_emit, ![w].pc = next]
    /\ UNCHANGED <<fs, pc, scanVars, cleanVars, dirStats, catalog, cliVars,
                   clock, last_emit, emitted>>

\* last_emit.store(now, Relaxed)
CbStore(w) ==
    /\ pc = "gui"
    /\ cb[w].pc = "store"
    /\ last_emit' = cb[w].now
    /\ cb' = [cb EXCEPT ![w].pc = "emit"]
    /\ UNCHANGED <<fs, pc, scanVars, cleanVars, dirStats, catalog, cliVars,
                   clock, emitted>>

\* app.emit("scan-progress", &progress), and the callback returns
CbEmit(w) ==
    /\ pc = "gui"
    /\ cb[w].pc = "emit"
    /\ emitted' = Append(emitted, cb[w].now)
    /\ cb' = [cb EXCEPT ![w].pc = "idle"]
    /\ UNCHANGED <<fs, pc, scanVars, cleanVars, dirStats, catalog, cliVars,
                   clock, last_emit>>

NextGui ==
    \/ Tick
    \/ \E w \in GuiWorkers : CbNow(w)
    \/ \E w \in GuiWorkers : CbLoad(w)
    \/ \E w \in GuiWorkers : CbStore(w)
    \/ \E w \in GuiWorkers : CbEmit(w)

SpecGui == InitGui /\ [][NextGui]_vars

\* C17 as stated: any two scan-progress events emitted are at least 50 ms
\* apart by the clock readings of their callbacks, for every interleaving of
\* the callbacks of the workers.
C17_EventsFiftyMsApart ==
    \A i, j \in 1..Len(emitted) :
        i # j => \/ emitted[i] - emitted[j] >= ThrottleMs
                 \/ emitted[j] - emitted[i] >= ThrottleMs

----------------------------------------------------------------------------
(* Specification of the CLI clean command: scan, plan of all items,         *)
(* confirmation, execute_clean                                              *)

\* characters of the line read at the prompt
MaxInputLen == 3

\* the characters an answer is made of
StdinChars == {"y", "Y", "n", " ", "\n"}

\* the lines read_line may give, the empty line of an end of input included
StdinLines == UNION { [1..n -> StdinChars] : n \in 0..MaxInputLen }

\* the path argument of the commands of the model
CliRoot == << "proj" >>

\* `devjunk clean proj [--dry-run] [--yes]`
ConfirmArgs ==
    { CleanArgs(<< CliRoot >>, dry, NoLimit, << >>, yes) :
        dry \in BOOLEAN, yes \in BOOLEAN }

InitConfirm ==
    /\ InitCore
    /\ InitGuiVars
    /\ catalog = NoCatalog
    /\ pc = "setup"
    /\ args \in ConfirmArgs
    /\ stdin = NoInput
    /\ out = << >>

\* main, Commands::Clean: build_scan_config and scan
CliScan ==
    ScanCall(build_scan_config(args.paths, args.max_depth, FALSE, args.kind))

\* main, Commands::Clean: nothing found, or the plan of all items
CliPlan ==
    /\ pc = "done"
    /\ IF result.items = << >>
       THEN /\ out' = Append(out, NoJunkMsg)
            /\ pc' = "exited"
            /\ UNCHANGED <<planArgs, plan>>
       ELSE /\ planArgs' = [selection |-> AllPaths, dry_run |-> args.dry_run]
            /\ plan' = build_clean_plan(result, AllPaths, args.dry_run)
            /\ pc' = "confirming"
            /\ UNCHANGED out
    /\ UNCHANGED <<fs, scanVars, locked, vanished, fs0, cres, dirStats,
                   catalog, guiVars, args, stdin>>

\* main, Commands::Clean: the prompt, unless --yes or --dry-run
CliConfirm ==
    /\ pc = "confirming"
    /\ IF ~args.yes /\ ~args.dry_run
       THEN \/ \E input \in StdinLines :
                 /\ stdin' = Line(input)
                 /\ IF ~confirmed(input)
                    THEN /\ out' = Append(out, AbortedMsg)
                         /\ pc' = "exited"
                    ELSE /\ pc' = "planned"
                         /\ UNCHANGED out
            \/ /\ stdin' = ReadError
               /\ pc' = "io_error"
               /\ UNCHANGED out
       ELSE /\ pc' = "planned"
            /\ UNCHANGED <<stdin, out>>
    /\ UNCHANGED <<fs, scanVars, cleanVars, dirStats, catalog, guiVars, args>>

NextCli ==
    \/ EnvMkdir(ParNames)
    \/ EnvCreateFile(ParNames)
    \/ CliScan
    \/ \E i \in 1..1 : Worker(i)
    \/ Collect
    \/ CliPlan
    \/ CliConfirm
    \/ ExecuteClean

SpecCli == InitConfirm /\ [][NextCli]_vars

\* the line is a y or a Y with nothing but whitespace around it
IsYes(line) ==
    \E i \in 1..Len(line) :
        /\ line[i] \in {"y", "Y"}
        /\ \A j \in (1..Len(line)) \ {i} : line[j] \in {" ", "\n", "\t"}

\* C18: without --yes and --dry-run, execute_clean is called only after a
\* line was read from stdin that, trimmed, is y or Y; after any other line
\* the command prints Aborted. and returns: execute_clean has not been
\* called and every directory of the scan result still exists.
C18_ConfirmBeforeDelete ==
    /\ (pc \in {"planned", "cleaned"} /\ ~args.yes /\ ~args.dry_run) =>
          stdin.tag = "Ok" /\ IsYes(stdin.line)
    /\ (pc = "cleaned" /\ ~plan.dry_run) =>
          args.yes \/ (stdin.tag = "Ok" /\ IsYes(stdin.line))
    /\ (stdin.tag = "Ok" /\ ~IsYes(stdin.line)) =>
          /\ pc = "exited"
          /\ out = << AbortedMsg >>
          /\ cres = NoResult
          /\ \A i \in 1..Len(Items) : Subtree(fs, Items[i].path) # {}
    /\ (pc = "cleaned") => (plan.dry_run = args.dry_run)

\* a clean command that deleted a directory after the answer " Y" and a
\* newline
C18_Witness ==
    /\ pc = "cleaned"
    /\ ~args.yes /\ ~args.dry_run
    /\ stdin = Line(<< " ", "Y", "\n" >>)
    /\ Len(cres.value.deleted) >= 1
    /\ fs # fs0

----------------------------------------------------------------------------
(* Specification of the CLI clean command with --kind filters *)

\* --kind options per command
MaxFilters == 2

\* the filter strings: part of one variant name, part of several in another
\* case, part of none
FilterNode == << "n", "o", "d", "e" >>
FilterCache == << "C", "A", "C", "H", "E" >>
FilterNone == << "z", "z", "z" >>
FilterChoices == { FilterNode, FilterCache, FilterNone }

FilterLists == UNION { [1..n -> FilterChoices] : n \in 0..MaxFilters }

\* the names of the trees: the root, and patterns of two kinds
KindNames == {"proj", "node_modules", "__pycache__"}

\* `devjunk clean proj --yes [--dry-run] [--kind f]...`
KindArgs ==
    { CleanArgs(<< CliRoot >>, dry, NoLimit, kinds, TRUE) :
        dry \in BOOLEAN, kinds \in FilterLists }

InitKind ==
    /\ InitCore
    /\ InitGuiVars
    /\ catalog = NoCatalog
    /\ pc = "setup"
    /\ args \in KindArgs
    /\ stdin = NoInput
    /\ out = << >>

NextKind ==
    \/ EnvMkdir(KindNames)
    \/ EnvCreateFile(KindNames)
    \/ CliScan
    \/ \E i \in 1..1 : Worker(i)
    \/ Collect
    \/ CliPlan
    \/ CliConfirm
    \/ ExecuteClean

SpecKind == InitKind /\ [][NextKind]_vars

\* the kinds whose variant name contains the filter, case-insensitively
KindsNamed(filter) ==
    IF filter = FilterNode THEN { "NodeModules" }
    ELSE IF filter = FilterCache THEN { "PythonCache", "MypyCache", "PytestCache" }
    ELSE { }

\* the kinds the filters of the command name
FilteredKinds == UNION { KindsNamed(args.kind[f]) : f \in 1..Len(args.kind) }

\* the directory name is a pattern of one of the kinds
NameOfKinds(name, kinds) == \E k \in kinds : name \in PatternNames(k)

\* C19 as stated: when --kind filters are given, the include patterns of the
\* scan are exactly the kinds whose variant name contains a filter, and no
\* directory of another kind is placed in the plan or deleted, also when the
\* filters name no kind.
C19_OnlyFilteredKinds ==
    (args.kind # << >>) =>
        /\ (pc \notin {"setup"}) =>
              { config.include_patterns[i] : i \in 1..Len(config.include_patterns) }
                 = FilteredKinds
        /\ \A i \in 1..Len(plan.paths) :
              NameOfKinds(file_name(plan.paths[i]), FilteredKinds)
        /\ (pc = "cleaned") =>
              \A i \in 1..Len(cres.value.deleted) :
                 NameOfKinds(file_name(cres.value.deleted[i]), FilteredKinds)

----------------------------------------------------------------------------
(* Effect of a real run, under SpecClean *)

\* the entry is a plan path or lies beneath one
InPlanSubtree(q) == \E i \in PlanIndices : starts_with(q, plan.paths[i])

\* C20: after a real execute_clean, no path listed in deleted exists, no plan
\* path that is not listed in failed exists, and every entry that is neither
\* a plan path nor beneath one is as it was when execute_clean was called;
\* no entry has been created.
C20_OnlyPlanSubtreesRemoved ==
    (pc = "cleaned" /\ ~plan.dry_run) =>
        /\ \A d \in Deleted : d \notin DOMAIN fs
        /\ \A i \in PlanIndices :
              plan.paths[i] \notin Failed => plan.paths[i] \notin DOMAIN fs
        /\ \A q \in DOMAIN fs0 :
              ~InPlanSubtree(q) => (q \in DOMAIN fs /\ fs[q] = fs0[q])
        /\ DOMAIN fs \subseteq DOMAIN fs0

\* a real run that deleted one directory with a file in it, failed on
\* another, and left a directory outside the plan
C20_Witness ==
    /\ pc = "cleaned" /\ ~plan.dry_run
    /\ Len(cres.value.deleted) = 1
    /\ Len(cres.value.failed) = 1
    /\ \E q \in (DOMAIN fs0) \ {<< >>} : ~InPlanSubtree(q) /\ q \in DOMAIN fs
    /\ \E q \in DOMAIN fs0 : q \notin DOMAIN fs

----------------------------------------------------------------------------
(* Items of several roots, under SpecPar *)

\* no two items have the same path and none lies under another
ItemsDistinctAndNotNested ==
    \A i, j \in 1..Len(Items) :
        i # j => ~starts_with(Items[i].path, Items[j].path)

\* no root is equal to or nested under another root
RootsNotNested ==
    \A i, j \in 1..Len(config.roots) :
        i # j => ~starts_with(config.roots[i], config.roots[j])

\* C21 as stated: for every config, roots equal to or nested inside one
\* another included, no two items have the same path and none is nested under
\* another.
C21_AnyRoots ==
    (pc = "done") => ItemsDistinctAndNotNested

\* C21 amended: when no root is equal to or nested under another root, no two
\* items have the same path and none is nested under another.
C21_RootsNotNested ==
    (pc = "done" /\ RootsNotNested) => ItemsDistinctAndNotNested

\* a scan of two roots, neither under the other, with an item from each
C21_Witness ==
    /\ pc = "done"
    /\ Len(config.roots) = 2
    /\ RootsNotNested
    /\ Len(Items) = 2
    /\ \E i, j \in 1..2 :
          /\ starts_with(Items[i].path, config.roots[1])
          /\ starts_with(Items[j].path, config.roots[2])

----------------------------------------------------------------------------
(* A root with a hidden name, under Spec *)

\* the walk of the root when the hidden filter is applied below the root only
WalkBelowRoot(ord) ==
    << TheRoot >> \o
    ( IF config.max_depth = NoLimit \/ 0 < config.max_depth
      THEN WalkChildren(fs, config, ord, TheRoot, 0, 1)
      ELSE << >> )

\* C22 as stated: with include_hidden = false, a root whose own name starts
\* with '.' and matches no active pattern is traversed: the scan returns the
\* items found when the hidden filter is applied to the entries below the
\* root only, as for a root whose name does not start with '.'; every
\* directory right below the root whose name is an active pattern and no
\* hidden name is an item (unless the depth limit is 0).
C22_HiddenRootTraversed ==
    (pc = "done" /\ ~config.include_hidden /\ is_hidden(TheRoot)
        /\ ~MatchesActive(file_name(TheRoot))) =>
        /\ \A ord \in NameOrders :
              ItemBag(Items) =
                 ItemBag(ScanLoop(fs, config, ord, WalkBelowRoot(ord), 1,
                                  << >>, << >>))
        /\ \A p \in Subtree(fs, TheRoot) :
              ( /\ Len(p) = Len(TheRoot) + 1
                /\ is_dir(fs, p)
                /\ MatchesActive(file_name(p))
                /\ config.max_depth # 0 )
              => p \in ItemPaths

====
